---- MODULE Spec2Model ----
(***************************************************************************)
(* The Markdown-to-PDF converter's front end (frontend/src/App.tsx) as a   *)
(* state machine: the component's React state, the DOM it renders, its     *)
(* pending timer and the requests it has in flight.                        *)
(*                                                                         *)
(* Text is a sequence of pieces.  A piece is one character (" ", "\n",     *)
(* ".") or a run of characters holding neither white space nor a dot       *)
(* ("sample", "png", "!["), so that trimming, extension stripping and      *)
(* concatenation are computed the way the code computes them.              *)
(***************************************************************************)
EXTENDS Integers, Sequences, FiniteSets, TLC

VARIABLES
    markdownContent,   \* useState('')            App.tsx:18
    cssStyles,         \* useState('')            App.tsx:21
    fontSize,          \* useState<number>(13)    App.tsx:24
    isLoading,         \* useState(false)         App.tsx:25
    result,            \* useState(null)          App.tsx:26
    error,             \* useState('')            App.tsx:27
    previewHtml,       \* useState('')            App.tsx:30
    isPreviewLoading,  \* useState(false)         App.tsx:31
    previewTimer,      \* the pending debounce timers with their closures, the
                       \* one previewTimer.current names last, App.tsx:32
    pageSize,          \* useState('A4')          App.tsx:35
    orientation,       \* useState('portrait')    App.tsx:36
    includeTitlePage,  \* useState(false)         App.tsx:40
    titleText,         \* useState("")            App.tsx:41
    titleDate,         \* useState("")            App.tsx:42
    titleName,         \* useState("")            App.tsx:43
    convertCall,       \* where the running handleConvert stands
    previewCalls,      \* the timer callbacks waiting for /preview
    uploadCalls,       \* the uploadAndInsertImage calls waiting for /upload-image
    sent,              \* the requests the last step handed to fetch
    dom,               \* what the last render put on the page
    filename,          \* useState('')            App.tsx:19
    fileReads,         \* the FileReader reads that have not finished
    isDarkMode,        \* useState(true)          App.tsx:28
    storedTheme,       \* window.localStorage 'theme'
    htmlDark,          \* <html> carries the class 'dark'
    prefersDark,       \* matchMedia('(prefers-color-scheme: dark)').matches
    mounted,           \* the page is open and its first effects have run
    saved,             \* what the initialising effect read from localStorage
    call               \* the composition engine's call for one request

vars == <<markdownContent, cssStyles, fontSize, isLoading, result, error,
          previewHtml, isPreviewLoading, previewTimer, pageSize, orientation,
          includeTitlePage, titleText, titleDate, titleName, convertCall,
          previewCalls, uploadCalls, sent, dom, filename, fileReads,
          isDarkMode, storedTheme, htmlDark, prefersDark, mounted, saved,
          call>>

settingVars == <<fontSize, pageSize, orientation>>
titleVars == <<includeTitlePage, titleText, titleDate, titleName>>
convertVars == <<isLoading, result, convertCall>>
previewNetVars == <<isPreviewLoading, previewCalls>>
fileVars == <<filename, fileReads>>
themeVars == <<isDarkMode, storedTheme, htmlDark, prefersDark, mounted,
               saved>>
\* the state that the editor, the settings and the requests leave alone
restVars == <<fileVars, themeVars, call>>
\* the state of the page, which the composition engine leaves alone
pageVars == <<markdownContent, cssStyles, error, settingVars, titleVars,
              convertVars, previewHtml, previewTimer, previewNetVars,
              uploadCalls, sent, dom, fileVars, themeVars>>

----------------------------------------------------------------------------
(* Bounds of the model *)

\* longest text the user types into the editor, in pieces
MaxLen == 2
\* /preview requests in flight at once
MaxPreviewInFlight == 2
\* /upload-image requests in flight at once
MaxUploads == 1
\* longest editor text onto which an image is still dropped or pasted
MaxInsertLen == 2
\* FileReader reads under way at once
MaxReads == 2
\* longest Markdown text handed to the composition engine, in lines
MaxLines == 3

----------------------------------------------------------------------------
(* Program constants *)

MAX_IMAGE_SIZE_MB == 10
MAX_IMAGE_SIZE_BYTES == MAX_IMAGE_SIZE_MB * 1024 * 1024
PREVIEW_PAGE_SIZE == "preview"
InitialFontSize == 13
InitialPageSize == "A4"
InitialOrientation == "portrait"
FontSizeMin == 8
FontSizeMax == 18

\* the <option> values of the two selects
PageSizeOptions == {PREVIEW_PAGE_SIZE, "A3", "A4", "A5", "Letter", "Legal"}
OrientationOptions == {"portrait", "landscape"}

\* result === null
Null == <<>>

----------------------------------------------------------------------------
(* Strings *)

WhiteSpace == {" ", "\n"}

RECURSIVE TrimStart(_)
TrimStart(s) ==
    IF s # <<>> /\ Head(s) \in WhiteSpace THEN TrimStart(Tail(s)) ELSE s

RECURSIVE TrimEnd(_)
TrimEnd(s) ==
    IF s # <<>> /\ s[Len(s)] \in WhiteSpace
    THEN TrimEnd(SubSeq(s, 1, Len(s) - 1))
    ELSE s

\* String.prototype.trim
Trim(s) == TrimEnd(TrimStart(s))

\* !markdownContent.trim()
IsBlank(s) == Trim(s) = <<>>

DigitChars == <<"0", "1", "2", "3", "4", "5", "6", "7", "8", "9">>

\* String(n) for a non-negative integer
RECURSIVE NumberToString(_)
NumberToString(n) ==
    IF n < 10
    THEN <<DigitChars[n + 1]>>
    ELSE NumberToString(n \div 10) \o <<DigitChars[(n % 10) + 1]>>

DigitValue(c) == CHOOSE d \in 0..9 : DigitChars[d + 1] = c

\* parseInt(s, 10) of a string of decimal digits
RECURSIVE ParseDigits(_, _)
ParseDigits(s, acc) ==
    IF s = <<>> THEN acc ELSE ParseDigits(Tail(s), 10 * acc + DigitValue(Head(s)))

ParseInt(s) == ParseDigits(s, 0)

\* all texts of at most n pieces over the alphabet
BoundedSeq(S, n) == UNION {[1..k -> S] : k \in 0..n}

----------------------------------------------------------------------------
(* FormData *)

Field(k, v) == [x \in {k} |-> v]

AppendIf(fd, cond, k, v) == IF cond THEN fd @@ Field(k, v) ELSE fd

\* the title-page fields, appended the same way by handleConvert and by the
\* preview timer callback
AppendTitlePage(fd, include, text, date, name) ==
    IF include
    THEN AppendIf(
           AppendIf(
             AppendIf(fd @@ Field("title_page", "true"),
                      text # <<>>, "title_text", text),
             date # <<>>, "title_date", date),
           name # <<>>, "title_name", name)
    ELSE fd

\* the body handleConvert builds
ConvertFormData ==
    AppendTitlePage(
      AppendIf(
        AppendIf(
          AppendIf(
            AppendIf(Field("markdown_content", markdownContent),
                     cssStyles # <<>>, "css_styles", cssStyles),
            fontSize # 0, "font_size", NumberToString(fontSize)),
          pageSize # "", "page_size", pageSize),
        orientation # "", "orientation", orientation),
      includeTitlePage, titleText, titleDate, titleName)

\* the preview body without its page_size
PreviewFormDataNoPageSize(c) ==
    AppendTitlePage(
      AppendIf(
        AppendIf(Field("markdown_content", c.markdownContent),
                 c.fontSize # 0, "font_size", NumberToString(c.fontSize)),
        c.orientation # "", "orientation", c.orientation),
      c.includeTitlePage, c.titleText, c.titleDate, c.titleName)

\* the body the preview timer callback builds from the values of the render
\* that scheduled it
PreviewFormData(c) ==
    AppendTitlePage(
      AppendIf(
        AppendIf(
          AppendIf(Field("markdown_content", c.markdownContent),
                   c.fontSize # 0, "font_size", NumberToString(c.fontSize)),
          c.pageSize # "", "page_size", c.pageSize),
        c.orientation # "", "orientation", c.orientation),
      c.includeTitlePage, c.titleText, c.titleDate, c.titleName)

Request(url, body) == [url |-> url, method |-> "POST", body |-> body]

----------------------------------------------------------------------------
(* Rendering *)

\* the button as it was before preview mode came: preview mode is not tested
ConvertDisabledNoPreview(loading, content, page) ==
    loading \/ IsBlank(content)

\* a button that stays enabled while a conversion is loading
ConvertDisabledIgnoresLoading(loading, content, page) ==
    IsBlank(content) \/ page = PREVIEW_PAGE_SIZE

\* disabled={isLoading || !markdownContent.trim() || isPreviewMode}
ConvertDisabled(loading, content, page) ==
    loading \/ IsBlank(content) \/ page = PREVIEW_PAGE_SIZE

\* the select without its disabled attribute
OrientationNeverDisabled(page) == FALSE

\* disabled={isPreviewMode} of the orientation select
OrientationDisabled(page) == page = PREVIEW_PAGE_SIZE

\* {result && !isPreviewMode && ( ...success card... )}
SuccessCardShown(res, page) == res # Null /\ page # PREVIEW_PAGE_SIZE

Render(loading, content, page, res, include) ==
    [convertDisabled     |-> ConvertDisabled(loading, content, page),
     orientationDisabled |-> OrientationDisabled(page),
     successCard         |-> SuccessCardShown(res, page),
     titleInputs         |-> include]

\* every step ends with the render of the state it leaves
Commit ==
    dom' = Render(isLoading', markdownContent', pageSize', result',
                  includeTitlePage')

----------------------------------------------------------------------------
(* Effects *)

NoTimer == <<>>

\* the values the timer callback closes over
Closure(content, font, page, orient) ==
    [markdownContent |-> content, fontSize |-> font, pageSize |-> page,
     orientation |-> orient, includeTitlePage |-> includeTitlePage,
     titleText |-> titleText, titleDate |-> titleDate, titleName |-> titleName]

\* window.clearTimeout(previewTimer.current): the timer the ref names is no
\* longer pending
ClearTimeout(timers) ==
    IF timers = <<>> THEN <<>> ELSE SubSeq(timers, 1, Len(timers) - 1)

\* a preview effect that sets its timer without clearing the pending one
PreviewEffectKeepsTimer(content, font, page, orient) ==
    IF IsBlank(content)
    THEN /\ previewTimer' = previewTimer
         /\ previewHtml' = <<>>
    ELSE /\ previewTimer' = Append(previewTimer,
                                  Closure(content, font, page, orient))
         /\ previewHtml' = previewHtml

\* The preview effect, run after a render in which one of markdownContent,
\* fontSize, pageSize, orientation changed: the pending timer is cleared, and
\* either the preview is emptied (blank content) or a new timer is set.
PreviewEffect(content, font, page, orient) ==
    IF IsBlank(content)
    THEN /\ previewTimer' = ClearTimeout(previewTimer)
         /\ previewHtml' = <<>>
    ELSE /\ previewTimer' = Append(ClearTimeout(previewTimer),
                                  Closure(content, font, page, orient))
         /\ previewHtml' = previewHtml

\* The effect on isPreviewMode: entering preview mode drops the result.
PreviewModeEffect(page, res) ==
    IF page = PREVIEW_PAGE_SIZE /\ pageSize # PREVIEW_PAGE_SIZE THEN Null ELSE res

----------------------------------------------------------------------------
(* Initial state: the component after its first render and effects *)

Init ==
    /\ markdownContent = <<>>
    /\ cssStyles = <<>>
    /\ fontSize = InitialFontSize
    /\ isLoading = FALSE
    /\ result = Null
    /\ error = ""
    /\ previewHtml = <<>>
    /\ isPreviewLoading = FALSE
    /\ previewTimer = NoTimer
    /\ pageSize = InitialPageSize
    /\ orientation = InitialOrientation
    /\ includeTitlePage = FALSE
    /\ titleText = <<>>
    /\ titleDate = <<>>
    /\ titleName = <<>>
    /\ convertCall = [stage |-> "idle"]
    /\ previewCalls = <<>>
    /\ uploadCalls = <<>>
    /\ sent = <<>>
    /\ dom = Render(FALSE, <<>>, InitialPageSize, Null, FALSE)
    /\ filename = <<>>
    /\ fileReads = <<>>
    /\ isDarkMode = FALSE
    /\ storedTheme = <<"light">>
    /\ htmlDark = FALSE
    /\ prefersDark = FALSE
    /\ mounted = TRUE
    /\ saved = Null
    /\ call = [stage |-> "idle"]

----------------------------------------------------------------------------
(* The settings panel *)

\* the values the user picks from
Alphabet == {"a", " ", "\n"}
Contents == BoundedSeq(Alphabet, MaxLen)
SliderInputs == {7, 13, 19}
TitleInputs == {<<>>, <<"t">>}

\* the range input without min and max
RangeValueUnbounded(n) == NumberToString(n)

\* <input type="range" min={8} max={18} step={1}>: the value the control
\* reports for a slider position
RangeValue(n) ==
    NumberToString(IF n < FontSizeMin THEN FontSizeMin
                   ELSE IF n > FontSizeMax THEN FontSizeMax ELSE n)

\* textarea onChange: setMarkdownContent(e.target.value)
ChangeContent(v) ==
    /\ v # markdownContent
    /\ markdownContent' = v
    /\ PreviewEffect(v, fontSize, pageSize, orientation)
    /\ sent' = <<>>
    /\ UNCHANGED <<restVars, cssStyles, error, settingVars, titleVars,
                   convertVars, previewNetVars, uploadCalls>>
    /\ Commit

\* range onChange: setFontSize(parseInt(e.target.value, 10))
ChangeFontSize(n) ==
    LET v == ParseInt(RangeValue(n)) IN
    /\ v # fontSize
    /\ fontSize' = v
    /\ PreviewEffect(markdownContent, v, pageSize, orientation)
    /\ sent' = <<>>
    /\ UNCHANGED <<markdownContent, restVars, cssStyles, error, pageSize,
                   orientation, titleVars, convertVars, previewNetVars,
                   uploadCalls>>
    /\ Commit

\* page size select onChange: setPageSize(e.target.value), then the effects
ChangePageSize(p) ==
    /\ p # pageSize
    /\ pageSize' = p
    /\ result' = PreviewModeEffect(p, result)
    /\ PreviewEffect(markdownContent, fontSize, p, orientation)
    /\ sent' = <<>>
    /\ UNCHANGED <<markdownContent, restVars, cssStyles, error, fontSize,
                   orientation, titleVars, isLoading, convertCall,
                   previewNetVars, uploadCalls>>
    /\ Commit

\* orientation select onChange: setOrientation(e.target.value); a disabled
\* select takes no input
ChangeOrientation(o) ==
    /\ ~dom.orientationDisabled
    /\ o # orientation
    /\ orientation' = o
    /\ PreviewEffect(markdownContent, fontSize, pageSize, o)
    /\ sent' = <<>>
    /\ UNCHANGED <<markdownContent, restVars, cssStyles, error, fontSize,
                   pageSize, titleVars, convertVars, previewNetVars,
                   uploadCalls>>
    /\ Commit

\* checkbox onChange: setIncludeTitlePage(e.target.checked)
ToggleTitlePage ==
    /\ includeTitlePage' = ~includeTitlePage
    /\ sent' = <<>>
    /\ UNCHANGED <<markdownContent, restVars, cssStyles, error, settingVars,
                   titleText, titleDate, titleName, convertVars, previewHtml,
                   previewTimer, previewNetVars, uploadCalls>>
    /\ Commit

\* the three inputs are rendered only while the checkbox is on
ChangeTitleText(v) ==
    /\ dom.titleInputs
    /\ v # titleText
    /\ titleText' = v
    /\ sent' = <<>>
    /\ UNCHANGED <<markdownContent, restVars, cssStyles, error, settingVars,
                   includeTitlePage, titleDate, titleName, convertVars,
                   previewHtml, previewTimer, previewNetVars, uploadCalls>>
    /\ Commit

ChangeTitleDate(v) ==
    /\ dom.titleInputs
    /\ v # titleDate
    /\ titleDate' = v
    /\ sent' = <<>>
    /\ UNCHANGED <<markdownContent, restVars, cssStyles, error, settingVars,
                   includeTitlePage, titleText, titleName, convertVars,
                   previewHtml, previewTimer, previewNetVars, uploadCalls>>
    /\ Commit

ChangeTitleName(v) ==
    /\ dom.titleInputs
    /\ v # titleName
    /\ titleName' = v
    /\ sent' = <<>>
    /\ UNCHANGED <<markdownContent, restVars, cssStyles, error, settingVars,
                   includeTitlePage, titleText, titleDate, convertVars,
                   previewHtml, previewTimer, previewNetVars, uploadCalls>>
    /\ Commit

----------------------------------------------------------------------------
(* Conversion *)

\* what /convert may answer: a ConversionResult on success; on failure a JSON
\* body with or without a detail, or a body that is not JSON
ConversionResults ==
    {[success |-> TRUE, message |-> "PDF generated successfully",
      file_id |-> "id-1", filename |-> "document.pdf",
      download_url |-> "/download/id-1"]}
ServerDetails == {"", "Markdown content is required"}
ConvertResponses ==
    {[ok |-> TRUE, json |-> TRUE, detail |-> "", data |-> <<d>>] :
        d \in ConversionResults}
    \cup {[ok |-> FALSE, json |-> TRUE, detail |-> m, data |-> Null] :
        m \in ServerDetails}
    \cup {[ok |-> FALSE, json |-> FALSE, detail |-> "", data |-> Null]}
\* the messages of the errors fetch and response.json() throw
NetworkErrors == {"Network error"}
JsonError == "Unexpected token < in JSON at position 0"

Idle == [stage |-> "idle"]

\* handleConvert without its preview-mode test
HandleConvertNoPreviewGuard ==
    IF IsBlank(markdownContent)
    THEN /\ error' = "Please enter some Markdown content"
         /\ sent' = <<>>
         /\ UNCHANGED convertVars
    ELSE /\ isLoading' = TRUE
         /\ error' = ""
         /\ result' = Null
         /\ sent' = <<Request("/convert", ConvertFormData)>>
         /\ convertCall' = [stage |-> "fetching"]

\* handleConvert without setResult(null)
HandleConvertKeepsResult ==
    IF IsBlank(markdownContent)
    THEN /\ error' = "Please enter some Markdown content"
         /\ sent' = <<>>
         /\ UNCHANGED convertVars
    ELSE IF pageSize = PREVIEW_PAGE_SIZE
    THEN /\ error' = "PDF download is disabled in Preview Use mode"
         /\ sent' = <<>>
         /\ UNCHANGED convertVars
    ELSE /\ isLoading' = TRUE
         /\ error' = ""
         /\ result' = result
         /\ sent' = <<Request("/convert", ConvertFormData)>>
         /\ convertCall' = [stage |-> "fetching"]

\* handleConvert up to its first await
HandleConvert ==
    IF IsBlank(markdownContent)
    THEN /\ error' = "Please enter some Markdown content"
         /\ sent' = <<>>
         /\ UNCHANGED convertVars
    ELSE IF pageSize = PREVIEW_PAGE_SIZE
    THEN /\ error' = "PDF download is disabled in Preview Use mode"
         /\ sent' = <<>>
         /\ UNCHANGED convertVars
    ELSE /\ isLoading' = TRUE
         /\ error' = ""
         /\ result' = Null
         /\ sent' = <<Request("/convert", ConvertFormData)>>
         /\ convertCall' = [stage |-> "fetching"]

\* a click on the Convert button; a disabled button takes no click
ClickConvert ==
    /\ ~dom.convertDisabled
    /\ HandleConvert
    /\ UNCHANGED <<markdownContent, restVars, cssStyles, settingVars,
                   titleVars, previewHtml, previewTimer, previewNetVars,
                   uploadCalls>>
    /\ Commit

\* handleConvert called while the button is rendered disabled or enabled,
\* with no call running
ForcedConvert ==
    /\ convertCall = Idle
    /\ HandleConvert
    /\ UNCHANGED <<markdownContent, restVars, cssStyles, settingVars,
                   titleVars, previewHtml, previewTimer, previewNetVars,
                   uploadCalls>>
    /\ Commit

\* fetch('/convert') rejects: catch, finally
ConvertFetchRejects(msg) ==
    /\ convertCall.stage = "fetching"
    /\ error' = msg
    /\ isLoading' = FALSE
    /\ convertCall' = Idle
    /\ sent' = <<>>
    /\ UNCHANGED <<markdownContent, restVars, cssStyles, settingVars,
                   titleVars, result, previewHtml, previewTimer,
                   previewNetVars, uploadCalls>>
    /\ Commit

\* fetch('/convert') resolves with a response; its body is still to be read
ConvertFetchResolves(r) ==
    /\ convertCall.stage = "fetching"
    /\ convertCall' = [stage |-> "reading", response |-> r]
    /\ sent' = <<>>
    /\ UNCHANGED <<markdownContent, restVars, cssStyles, settingVars,
                   titleVars, isLoading, result, error, previewHtml,
                   previewTimer, previewNetVars, uploadCalls>>
    /\ Commit

\* the rest of handleConvert without its finally on the successful path
ConvertContinuesNoFinally ==
    /\ convertCall.stage = "reading"
    /\ LET r == convertCall.response IN
         IF ~r.json
         THEN error' = JsonError /\ result' = result /\ isLoading' = FALSE
         ELSE IF ~r.ok
         THEN /\ error' = (IF r.detail # "" THEN r.detail ELSE "Conversion failed")
              /\ result' = result
              /\ isLoading' = FALSE
         ELSE /\ result' = r.data
              /\ error' = error
              /\ isLoading' = isLoading
    /\ convertCall' = Idle
    /\ sent' = <<>>
    /\ UNCHANGED <<markdownContent, restVars, cssStyles, settingVars,
                   titleVars, previewHtml, previewTimer, previewNetVars,
                   uploadCalls>>
    /\ Commit

\* the rest of handleConvert: response.json(), the ok test, setResult or the
\* catch, and the finally
ConvertContinues ==
    /\ convertCall.stage = "reading"
    /\ LET r == convertCall.response IN
         IF ~r.json
         THEN error' = JsonError /\ result' = result
         ELSE IF ~r.ok
         THEN /\ error' = (IF r.detail # "" THEN r.detail ELSE "Conversion failed")
              /\ result' = result
         ELSE /\ result' = r.data
              /\ error' = error
    /\ isLoading' = FALSE
    /\ convertCall' = Idle
    /\ sent' = <<>>
    /\ UNCHANGED <<markdownContent, restVars, cssStyles, settingVars,
                   titleVars, previewHtml, previewTimer, previewNetVars,
                   uploadCalls>>
    /\ Commit

----------------------------------------------------------------------------
(* Live preview *)

\* the document /preview returns for a request body
PreviewDocument(body) == <<[rendering_of |-> body]>>

RemoveAt(s, i) == SubSeq(s, 1, i - 1) \o SubSeq(s, i + 1, Len(s))

\* the oldest pending timer fires: setIsPreviewLoading(true), the form data
\* of its closure, fetch('/preview')
PreviewTimerFires ==
    /\ previewTimer # NoTimer
    /\ Len(previewCalls) < MaxPreviewInFlight
    /\ LET body == PreviewFormData(Head(previewTimer)) IN
         /\ sent' = <<Request("/preview", body)>>
         /\ previewCalls' = Append(previewCalls, body)
    /\ isPreviewLoading' = TRUE
    /\ previewTimer' = Tail(previewTimer)
    /\ UNCHANGED <<markdownContent, restVars, cssStyles, error, settingVars,
                   titleVars, convertVars, previewHtml, uploadCalls>>
    /\ Commit

\* a catch block that reports the failure and drops the stale preview
PreviewSettlesReportsFailure(i, ok) ==
    /\ i \in 1..Len(previewCalls)
    /\ previewHtml' = (IF ok THEN PreviewDocument(previewCalls[i]) ELSE <<>>)
    /\ error' = (IF ok THEN error ELSE "Failed to render preview")
    /\ isPreviewLoading' = FALSE
    /\ previewCalls' = RemoveAt(previewCalls, i)
    /\ sent' = <<>>
    /\ UNCHANGED <<markdownContent, restVars, cssStyles, settingVars,
                   titleVars, convertVars, previewTimer, uploadCalls>>
    /\ Commit

\* the i-th pending /preview answers: setPreviewHtml on success, nothing on
\* failure, setIsPreviewLoading(false) in both
PreviewSettles(i, ok) ==
    /\ i \in 1..Len(previewCalls)
    /\ previewHtml' = (IF ok THEN PreviewDocument(previewCalls[i]) ELSE previewHtml)
    /\ isPreviewLoading' = FALSE
    /\ previewCalls' = RemoveAt(previewCalls, i)
    /\ sent' = <<>>
    /\ UNCHANGED <<markdownContent, restVars, cssStyles, error, settingVars,
                   titleVars, convertVars, previewTimer, uploadCalls>>
    /\ Commit

----------------------------------------------------------------------------
(* Images dropped on or pasted into the editor *)

ImageExtensions == {"png", "jpg", "jpeg", "gif", "webp", "svg"}

\* the /i flag of the extension test, on the extensions written in capitals
\* that the model's files use
LowerCase(p) == IF p = "PNG" THEN "png" ELSE p

\* file.type.startsWith('image/') || /\.(png|jpe?g|gif|webp|svg)$/i.test(file.name)
IsImageFile(file) ==
    \/ (file.type # <<>> /\ Head(file.type) = "image/")
    \/ /\ Len(file.name) >= 2
       /\ file.name[Len(file.name) - 1] = "."
       /\ LowerCase(file.name[Len(file.name)]) \in ImageExtensions

\* Array.from(files).find((f) => isImageFile(f)), as <<f>> or <<>>
SelectImageFile(files) ==
    LET hits == {i \in 1..Len(files) : IsImageFile(files[i])} IN
    IF hits = {} THEN <<>>
    ELSE <<files[CHOOSE i \in hits : \A j \in hits : i <= j]>>

\* the first item that is an image file and yields a File, as <<f>> or <<>>
SelectImageItem(items) ==
    LET hits == {i \in 1..Len(items) :
                    /\ items[i].kind = "file"
                    /\ items[i].type # <<>> /\ Head(items[i].type) = "image/"
                    /\ items[i].file # <<>>} IN
    IF hits = {} THEN <<>>
    ELSE items[CHOOSE i \in hits : \A j \in hits : i <= j].file

\* extractClipboardImage, as <<f>> or <<>> (null)
ExtractClipboardImage(data) ==
    IF SelectImageFile(data.files) # <<>>
    THEN SelectImageFile(data.files)
    ELSE SelectImageItem(data.items)

\* name.replace(/\.[^.]+$/, ''): the last dot and what follows it, when
\* something follows it
StripExtension(name) ==
    LET dots == {i \in 1..Len(name) : name[i] = "."} IN
    IF dots = {} THEN name
    ELSE LET k == CHOOSE i \in dots : \A j \in dots : j <= i IN
         IF k < Len(name) THEN SubSeq(name, 1, k - 1) ELSE name

PastedImage == <<"pasted-image">>

\* deriveAltText without the extension stripped
DeriveAltTextKeepsExtension(file, fallback) ==
    LET base    == file.name
        trimmed == Trim(IF base # <<>> THEN base ELSE fallback)
    IN  IF trimmed # <<>> THEN trimmed ELSE fallback

\* deriveAltText(file, fallback)
DeriveAltText(file, fallback) ==
    LET base    == IF file.name # <<>> THEN StripExtension(file.name) ELSE <<>>
        trimmed == Trim(IF base # <<>> THEN base ELSE fallback)
    IN  IF trimmed # <<>> THEN trimmed ELSE fallback

\* `![${altText}](${url})`
Snippet(altText, url) == <<"![">> \o altText \o <<"](">> \o url \o <<")">>

\* an insertion that leaves out the text after the selection
InsertImageMarkdownDropsRest(value, start, end, url, altText) ==
    LET before == SubSeq(value, 1, start)
        needsBreakBefore == Len(before) > 0 /\ before[Len(before)] # "\n"
        insertion == (IF needsBreakBefore THEN <<"\n">> ELSE <<>>)
                     \o Snippet(altText, url) \o <<"\n">>
    IN  before \o insertion

\* insertImageMarkdown with the textarea mounted: the new editor text for
\* the selection [start, end) of value
InsertImageMarkdown(value, start, end, url, altText) ==
    LET before == SubSeq(value, 1, start)
        after  == SubSeq(value, end + 1, Len(value))
        needsBreakBefore == Len(before) > 0 /\ before[Len(before)] # "\n"
        insertion == (IF needsBreakBefore THEN <<"\n">> ELSE <<>>)
                     \o Snippet(altText, url) \o <<"\n">>
    IN  before \o insertion \o after

\* insertImageMarkdown with textareaRef.current null: the functional update
\* of the editor text
AppendImageMarkdown(text, url, altText) ==
    IF text # <<>>
    THEN text \o <<"\n">> \o Snippet(altText, url) \o <<"\n">>
    ELSE Snippet(altText, url) \o <<"\n">>

\* textareaRef.current as insertImageMarkdown finds it: null, or the
\* textarea with its selection
TextAreas(value) ==
    {<<>>} \cup
    UNION {{<<[selectionStart |-> start, selectionEnd |-> end]>> :
               end \in start..Len(value)} : start \in 0..Len(value)}

\* the size tests with >= for >
SizeErrorAtLimit(file) ==
    IF file.size = 0 THEN "Image file is empty"
    ELSE IF file.size >= MAX_IMAGE_SIZE_BYTES
    THEN "Images larger than 10 MB are not supported"
    ELSE ""

\* the two size tests at the head of uploadAndInsertImage: the message of
\* the error thrown, or "" when the file passes
SizeError(file) ==
    IF file.size = 0 THEN "Image file is empty"
    ELSE IF file.size > MAX_IMAGE_SIZE_BYTES
    THEN "Images larger than 10 MB are not supported"
    ELSE ""

\* the files and the drag or clipboard payloads the user brings
File(name, type, size) == [name |-> name, type |-> type, size |-> size]
Png == <<"image/", "png">>
Sample == File(<<"sample", ".", "png">>, Png, 4)
Notes == File(<<"notes", ".", "md">>, <<"text/", "markdown">>, 9)
Files ==
    {Sample, Notes,
     File(<<"scan", ".", "PNG">>, <<>>, MAX_IMAGE_SIZE_BYTES),
     File(<<" ", "shot", ".", "png">>, Png, 1),
     File(<<" ", ".", "png">>, Png, 7),
     File(<<>>, Png, 3),
     File(<<"huge", ".", "png">>, Png, MAX_IMAGE_SIZE_BYTES + 1),
     File(<<"empty", ".", "gif">>, <<"image/", "gif">>, 0)}
Item(f) == [kind |-> "file", type |-> f.type, file |-> <<f>>]
Transfers ==
    {[files |-> <<f>>, items |-> <<>>] : f \in Files}
    \cup {[files |-> <<Notes, Sample>>, items |-> <<>>],
          [files |-> <<>>, items |-> <<Item(Notes), Item(Sample)>>],
          [files |-> <<>>, items |-> <<>>]}
UploadUrls == {<<"/assets/uploaded", ".", "png">>}

\* what the paste and the drop handler share: the image is taken out of the
\* payload, the error is cleared, and uploadAndInsertImage runs up to its
\* fetch or to the error it throws; a payload without an image is left to
\* the browser
ImageHandler(source, data) ==
    LET image == ExtractClipboardImage(data) IN
    IF image = <<>>
    THEN /\ sent' = <<>>
         /\ UNCHANGED <<error, uploadCalls>>
    ELSE LET file == image[1]
             alt  == DeriveAltText(file, PastedImage) IN
         IF SizeError(file) # ""
         THEN /\ error' = SizeError(file)
              /\ sent' = <<>>
              /\ UNCHANGED uploadCalls
         ELSE /\ error' = ""
              /\ sent' = <<Request("/upload-image", [file |-> file])>>
              /\ uploadCalls' = Append(uploadCalls,
                     [source |-> source, file |-> file, altHint |-> alt])

\* textarea onDrop
DropOnEditor(data) ==
    /\ Len(uploadCalls) < MaxUploads
    /\ Len(markdownContent) <= MaxInsertLen
    /\ ImageHandler("drop", data)
    /\ UNCHANGED <<markdownContent, restVars, cssStyles, settingVars,
                   titleVars, convertVars, previewHtml, previewTimer,
                   previewNetVars>>
    /\ Commit

\* textarea onPaste: handleClipboardPaste
PasteInEditor(data) ==
    /\ Len(uploadCalls) < MaxUploads
    /\ Len(markdownContent) <= MaxInsertLen
    /\ ImageHandler("paste", data)
    /\ UNCHANGED <<markdownContent, restVars, cssStyles, settingVars,
                   titleVars, convertVars, previewHtml, previewTimer,
                   previewNetVars>>
    /\ Commit

\* a drop handler whose catch is the paste handler's
UploadRejectsAsPaste(i, msg) ==
    /\ i \in 1..Len(uploadCalls)
    /\ error' = (IF msg = "Image upload failed"
                 THEN "Image paste failed" ELSE msg)
    /\ uploadCalls' = RemoveAt(uploadCalls, i)
    /\ sent' = <<>>
    /\ UNCHANGED <<markdownContent, restVars, cssStyles, settingVars,
                   titleVars, convertVars, previewHtml, previewTimer,
                   previewNetVars>>
    /\ Commit

\* fetch('/upload-image') rejects: the handler's catch shows the message
UploadRejects(i, msg) ==
    /\ i \in 1..Len(uploadCalls)
    /\ error' = (IF msg = "Image upload failed"
                 THEN (IF uploadCalls[i].source = "paste"
                       THEN "Image paste failed" ELSE "Image drop failed")
                 ELSE msg)
    /\ uploadCalls' = RemoveAt(uploadCalls, i)
    /\ sent' = <<>>
    /\ UNCHANGED <<markdownContent, restVars, cssStyles, settingVars,
                   titleVars, convertVars, previewHtml, previewTimer,
                   previewNetVars>>
    /\ Commit

\* /upload-image answers with a status that is not OK
UploadRefused(i) ==
    /\ i \in 1..Len(uploadCalls)
    /\ UploadRejects(i, "Image upload failed")

\* /upload-image answers OK with {url}: the snippet goes into the editor at
\* the textarea's selection (at the end of the text when the ref holds no
\* textarea), and the preview effect runs on the new text
UploadInserts(i, url, el) ==
    /\ i \in 1..Len(uploadCalls)
    /\ el # <<>> => el[1].selectionStart <= el[1].selectionEnd
    /\ LET alt == IF uploadCalls[i].altHint # <<>>
                  THEN uploadCalls[i].altHint ELSE PastedImage
           newText == IF el # <<>>
                      THEN InsertImageMarkdown(markdownContent,
                                               el[1].selectionStart,
                                               el[1].selectionEnd, url, alt)
                      ELSE AppendImageMarkdown(markdownContent, url, alt) IN
         /\ markdownContent' = newText
         /\ PreviewEffect(newText, fontSize, pageSize, orientation)
    /\ uploadCalls' = RemoveAt(uploadCalls, i)
    /\ sent' = <<>>
    /\ UNCHANGED <<restVars, cssStyles, error, settingVars, titleVars,
                   convertVars, previewNetVars>>
    /\ Commit

UploadSucceeds(i, url) ==
    /\ i \in 1..Len(uploadCalls)
    /\ \E el \in TextAreas(markdownContent) : UploadInserts(i, url, el)

----------------------------------------------------------------------------
(* Markdown files: the upload area and its file input *)

\* a file the user picks: its name and the text a FileReader reads from it
Document(name, text) == [name |-> name, text |-> text]

Documents ==
    {Document(<<"notes", ".", "md">>, <<"a">>),
     Document(<<".", "md">>, <<>>),
     Document(<<".", "mdx", ".", "md">>, <<"a", "\n">>),
     Document(<<"notes", ".", "MD">>, <<"a">>),
     Document(<<"notes", ".", "md", " ">>, <<"a">>),
     Document(<<"amd">>, <<"a">>),
     Document(<<"sample", ".", "png">>, <<"a">>),
     Document(<<>>, <<"a">>)}

\* name.endsWith('.md')
EndsWithMd(name) ==
    /\ Len(name) >= 2
    /\ name[Len(name) - 1] = "."
    /\ name[Len(name)] = "md"

\* what is left of a piece that begins with 'md' once 'md' is taken off
AfterMd(piece) == IF piece = "mdx" THEN <<"x">> ELSE <<>>

\* name.replace('.md', ''): the first '.md' of the name is taken out (for
\* names in which no run of letters comes to stand next to another)
ReplaceMd(name) ==
    LET hits == {i \in 1..(Len(name) - 1) :
                    name[i] = "." /\ name[i + 1] \in {"md", "mdx"}} IN
    IF hits = {} THEN name
    ELSE LET i == CHOOSE k \in hits : \A j \in hits : k <= j IN
         SubSeq(name, 1, i - 1) \o AfterMd(name[i + 1])
             \o SubSeq(name, i + 2, Len(name))

\* name.includes('.md') where the code has endsWith
HandleFileUploadIncludesMd(file) ==
    /\ Len(fileReads) < MaxReads
    /\ IF ReplaceMd(file.name) # file.name
       THEN /\ fileReads' = Append(fileReads, file)
            /\ UNCHANGED error
       ELSE /\ error' = "Please select a .md file"
            /\ UNCHANGED fileReads
    /\ sent' = <<>>
    /\ UNCHANGED <<markdownContent, cssStyles, settingVars, titleVars,
                   convertVars, previewHtml, previewTimer, previewNetVars,
                   uploadCalls, filename, themeVars, call>>
    /\ Commit

\* handleFileUpload: a name that does not end in '.md' sets the error;
\* otherwise a FileReader starts to read the file
HandleFileUpload(file) ==
    /\ Len(fileReads) < MaxReads
    /\ IF ~EndsWithMd(file.name)
       THEN /\ error' = "Please select a .md file"
            /\ UNCHANGED fileReads
       ELSE /\ fileReads' = Append(fileReads, file)
            /\ UNCHANGED error
    /\ sent' = <<>>
    /\ UNCHANGED <<markdownContent, cssStyles, settingVars, titleVars,
                   convertVars, previewHtml, previewTimer, previewNetVars,
                   uploadCalls, filename, themeVars, call>>
    /\ Commit

\* the file input's onChange: the first of the chosen files, if there is one
BrowseFile(files) ==
    /\ files # <<>>
    /\ HandleFileUpload(files[1])

\* handleDrop on the upload area: the first of the dropped files, if there
\* is one
DropOnUploadArea(files) ==
    /\ files # <<>>
    /\ HandleFileUpload(files[1])

\* reader.onload: the text goes into the editor, the name without '.md' into
\* filename, the error is cleared, and the preview effect runs on a changed
\* text
FileReadCompletes(i) ==
    /\ i \in 1..Len(fileReads)
    /\ markdownContent' = fileReads[i].text
    /\ filename' = ReplaceMd(fileReads[i].name)
    /\ error' = ""
    /\ IF fileReads[i].text # markdownContent
       THEN PreviewEffect(fileReads[i].text, fontSize, pageSize, orientation)
       ELSE UNCHANGED <<previewTimer, previewHtml>>
    /\ fileReads' = RemoveAt(fileReads, i)
    /\ sent' = <<>>
    /\ UNCHANGED <<cssStyles, settingVars, titleVars, convertVars,
                   previewNetVars, uploadCalls, themeVars, call>>
    /\ Commit

----------------------------------------------------------------------------
(* Theme *)

\* what localStorage can hold under 'theme': nothing, or a string
StoredThemes == {Null, <<"dark">>, <<"light">>, <<"system">>}

ThemeName(dark) == IF dark THEN "dark" ELSE "light"

\* an initialising effect that has the system preference win
RestoredThemePrefersSystem(value, prefers) ==
    IF prefers THEN TRUE ELSE value = <<"dark">>

\* the initialising effect: the saved theme if it is 'dark' or 'light', else
\* the system preference
RestoredTheme(value, prefers) ==
    IF value = <<"dark">> \/ value = <<"light">>
    THEN value = <<"dark">>
    ELSE prefers

\* the effect on isDarkMode: the class 'dark' of <html> and the stored theme
\* follow the state of the render the effect belongs to
ThemeEffect(dark) ==
    /\ htmlDark' = dark
    /\ storedTheme' = <<ThemeName(dark)>>

\* the button 'Toggle theme': setIsDarkMode(!isDarkMode), then the effect
ToggleTheme ==
    /\ mounted
    /\ isDarkMode' = ~isDarkMode
    /\ ThemeEffect(~isDarkMode)
    /\ sent' = <<>>
    /\ UNCHANGED <<markdownContent, cssStyles, error, settingVars, titleVars,
                   convertVars, previewHtml, previewTimer, previewNetVars,
                   uploadCalls, fileVars, prefersDark, mounted, saved, call>>
    /\ Commit

\* the page is closed: the component, its timer and its callbacks are gone,
\* localStorage stays
Close ==
    /\ mounted
    /\ mounted' = FALSE
    /\ previewTimer' = NoTimer
    /\ previewCalls' = <<>>
    /\ uploadCalls' = <<>>
    /\ fileReads' = <<>>
    /\ convertCall' = [stage |-> "idle"]
    /\ sent' = <<>>
    /\ UNCHANGED <<markdownContent, cssStyles, error, settingVars, titleVars,
                   isLoading, result, previewHtml, isPreviewLoading, filename,
                   isDarkMode, storedTheme, htmlDark, prefersDark, saved,
                   dom, call>>

\* while the page is closed the stored theme is removed or rewritten
StorageChanges(v) ==
    /\ ~mounted
    /\ v # storedTheme
    /\ storedTheme' = v
    /\ UNCHANGED <<markdownContent, cssStyles, error, settingVars, titleVars,
                   convertVars, previewHtml, previewTimer, previewNetVars,
                   uploadCalls, sent, dom, fileVars, isDarkMode, htmlDark,
                   prefersDark, mounted, saved, call>>

\* the system switches between its light and its dark appearance; the page
\* does not listen
SystemPreferenceChanges ==
    /\ prefersDark' = ~prefersDark
    /\ UNCHANGED <<markdownContent, cssStyles, error, settingVars, titleVars,
                   convertVars, previewHtml, previewTimer, previewNetVars,
                   uploadCalls, sent, dom, fileVars, isDarkMode, storedTheme,
                   htmlDark, mounted, saved, call>>

\* A fresh mount: the first render with the initial state (isDarkMode true),
\* its effects in order (the initialising effect reads the saved theme, the
\* isDarkMode effect of the first render stores 'dark'), and, when the
\* restored theme is not the initial one, the second render and its effect.
Mount ==
    /\ ~mounted
    /\ mounted' = TRUE
    /\ saved' = storedTheme
    /\ LET restored == RestoredTheme(storedTheme, prefersDark) IN
         /\ isDarkMode' = restored
         /\ IF restored # TRUE THEN ThemeEffect(restored) ELSE ThemeEffect(TRUE)
    /\ markdownContent' = <<>>
    /\ fontSize' = InitialFontSize
    /\ isLoading' = FALSE
    /\ result' = Null
    /\ error' = ""
    /\ previewHtml' = <<>>
    /\ isPreviewLoading' = FALSE
    /\ pageSize' = InitialPageSize
    /\ orientation' = InitialOrientation
    /\ includeTitlePage' = FALSE
    /\ titleText' = <<>>
    /\ titleDate' = <<>>
    /\ titleName' = <<>>
    /\ filename' = <<>>
    /\ sent' = <<>>
    /\ UNCHANGED <<cssStyles, previewTimer, convertCall, previewCalls,
                   uploadCalls, fileReads, prefersDark, call>>
    /\ Commit

----------------------------------------------------------------------------
(* The Document Composition Engine behind /convert and /preview             *)
(*                                                                          *)
(* The Markdown text of a request is a sequence of lines and a line is a    *)
(* sequence of tokens: white space, a marker (":::", the three backticks of *)
(* a fence, "[[PAGEBREAK]]"), a word, an image "![a](u)" or a width         *)
(* annotation.                                                              *)

\* the token of three backticks
Fence == "<3 backticks>"

\* the recognised callout kinds
CalloutKinds == {"note", "tip", "warning", "caution", "info"}

\* a kind in lower case, for the kinds the model's lines spell otherwise
LowerKind(k) == IF k = "TIP" THEN "tip" ELSE IF k = "Note" THEN "note" ELSE k

\* the default label of a callout without a title
DefaultLabel(kind) ==
    CASE kind = "note" -> "Note"
      [] kind = "tip" -> "Tip"
      [] kind = "warning" -> "Warning"
      [] kind = "caution" -> "Caution"
      [] kind = "info" -> "Info"

\* the lines a request's text is made of
Lines ==
    {<<"hello">>,
     <<"[[PAGEBREAK]]">>,
     <<" ", "[[PAGEBREAK]]", " ">>,
     <<Fence>>,
     <<":::", "note">>,
     <<":::", "TIP", " ", "Title">>,
     <<":::", "bogus">>,
     <<":::">>,
     <<"![a](u)", "{width=50%}">>,
     <<"see", " ", "![a](u)", "{width=150%}">>}

RenderModes == {"production", "preview"}

\* the enumerated page sizes and orientations
EnginePageSizes == {"A3", "A4", "A5", "Letter", "Legal", "Preview"}
EngineOrientations == {"portrait", "landscape"}

\* the settings a request is sent with, valid or not
RenderConfigs ==
    [mode : RenderModes,
     fontSizePx : {7, 8, 18, 19},
     pageSize : {"A4", "Preview", "A0"},
     orientation : {"portrait", "sideways"}]

\* a Configuration Model that validates the enumerations only
ValidConfigEnumsOnly(config) ==
    /\ config.pageSize \in EnginePageSizes
    /\ \/ config.pageSize = "Preview"
       \/ config.orientation \in EngineOrientations

\* the Configuration Model's validation: the font size in its range, the
\* page size enumerated, and the orientation enumerated unless the page
\* size is Preview
ValidConfig(config) ==
    /\ config.fontSizePx \in 8..18
    /\ config.pageSize \in EnginePageSizes
    /\ \/ config.pageSize = "Preview"
       \/ config.orientation \in EngineOrientations

\* a line whose trimmed content is exactly [[PAGEBREAK]]
IsPageBreak(line) == Trim(line) = <<"[[PAGEBREAK]]">>

\* a line that opens or closes a fenced code block
IsFence(line) == Trim(line) # <<>> /\ Head(Trim(line)) = Fence

\* a line matching :::<kind>[ <title>]
IsCalloutOpen(line) ==
    /\ Len(line) >= 2
    /\ line[1] = ":::"
    /\ line[2] \notin WhiteSpace
    /\ (Len(line) = 2 \/ (Len(line) >= 4 /\ line[3] = " "))

CalloutKind(line) == LowerKind(line[2])

\* the title of an opening line, as <<title>> or <<>>
CalloutTitle(line) ==
    IF Len(line) >= 4 THEN <<SubSeq(line, 4, Len(line))>> ELSE <<>>

\* a line that is exactly :::
IsCalloutClose(line) == line = <<":::">>

\* the percentage of a {width=N%} annotation, 0 for any other token
WidthOf(token) ==
    CASE token = "{width=50%}" -> 50
      [] token = "{width=150%}" -> 150
      [] OTHER -> 0

IsWidth(token) == token \in {"{width=50%}", "{width=150%}"}

\* the place of the first image token that a width annotation follows, or 0
ImageAt(line) ==
    LET hits == {i \in 1..(Len(line) - 1) :
                    line[i] = "![a](u)" /\ IsWidth(line[i + 1])} IN
    IF hits = {} THEN 0 ELSE CHOOSE i \in hits : \A j \in hits : i <= j

\* Segments
TextSegment(lines) == [type |-> "Text", markdownSource |-> lines]
PageBreak == [type |-> "PageBreak"]
Callout(kind, title, body) ==
    [type |-> "Callout", kind |-> kind, title |-> title,
     bodyMarkdown |-> body]
Image(alt, url, width) ==
    [type |-> "Image", altText |-> alt, url |-> url, widthPercent |-> width]

\* the segments so far, with the text accumulated since the last directive
Flush(segments, text) ==
    IF text = <<>> THEN segments ELSE Append(segments, TextSegment(text))

\* the engine between two calls
NoCall == [stage |-> "idle"]

\* A call that has begun to scan: the scanner's state, the line it is at, the
\* text and the callout it accumulates, and the segments it has emitted
Scanning(request) ==
    [stage |-> "scanning", request |-> request, state |-> "Normal",
     line |-> 1, text |-> <<>>, callout |-> <<>>, segments |-> <<>>]

Failed(c, kind, detail) ==
    [stage |-> "failed", request |-> c.request, error |-> kind,
     detail |-> detail, line |-> c.line]

\* the line the call is at, and the call moved on to the next line
Line(c) == c.request.markdownText[c.line]
Advance(c) == [c EXCEPT !.line = c.line + 1]

\* a scanner that takes an unknown kind for a note
OpenCalloutDefaultsToNote(c) ==
    [Advance(c) EXCEPT
       !.state = "InCallout",
       !.text = <<>>,
       !.segments = Flush(c.segments, c.text),
       !.callout = <<Callout(IF CalloutKind(Line(c)) \in CalloutKinds
                             THEN CalloutKind(Line(c)) ELSE "note",
                             CalloutTitle(Line(c)), <<>>)>>]

\* an opening line: a recognised kind opens a callout after the text
\* accumulated so far, any other kind is an error of the scan
OpenCallout(c) ==
    IF CalloutKind(Line(c)) \in CalloutKinds
    THEN [Advance(c) EXCEPT
            !.state = "InCallout",
            !.text = <<>>,
            !.segments = Flush(c.segments, c.text),
            !.callout = <<Callout(CalloutKind(Line(c)),
                                  CalloutTitle(Line(c)), <<>>)>>]
    ELSE Failed(c, "DirectiveSyntaxError", "UnknownCalloutKind")

\* a line with a width-annotated image (one to a line): the text before it
\* joins the text accumulated so far, the image is a segment of its own and
\* the text after it begins the next text; a width outside 1..100 is an
\* error of the scan
ScanImage(c) ==
    LET l == Line(c)
        i == ImageAt(l)
        before == SubSeq(l, 1, i - 1)
        after == SubSeq(l, i + 2, Len(l))
        width == WidthOf(l[i + 1]) IN
    IF width < 1 \/ width > 100
    THEN Failed(c, "DirectiveSyntaxError", "WidthOutOfRange")
    ELSE [Advance(c) EXCEPT
            !.text = IF after = <<>> THEN <<>> ELSE <<after>>,
            !.segments = Append(
                Flush(c.segments,
                      IF before = <<>> THEN c.text ELSE Append(c.text, before)),
                Image(<<"a">>, <<"u">>, <<width>>))]

\* a line outside fences and callouts: a page break, a callout, a
\* width-annotated image and plain text are recognised in this order
ScanDirective(c) ==
    IF IsPageBreak(Line(c))
    THEN [Advance(c) EXCEPT
            !.text = <<>>,
            !.segments = Append(Flush(c.segments, c.text), PageBreak)]
    ELSE IF IsCalloutOpen(Line(c)) THEN OpenCallout(c)
    ELSE IF ImageAt(Line(c)) # 0 THEN ScanImage(c)
    ELSE [Advance(c) EXCEPT !.text = Append(c.text, Line(c))]

\* a scanner that goes on recognising directives inside a fence
ScanInCodeFenceRecognises(c) ==
    IF IsFence(Line(c))
    THEN [Advance(c) EXCEPT !.text = Append(c.text, Line(c)),
                            !.state = "Normal"]
    ELSE LET r == ScanDirective(c) IN
         IF r.stage = "scanning" /\ r.state = "Normal"
         THEN [r EXCEPT !.state = "InCodeFence"] ELSE r

\* a line in a fenced code block is text, and the line that closes the
\* fence ends the block
ScanInCodeFence(c) ==
    [Advance(c) EXCEPT
       !.text = Append(c.text, Line(c)),
       !.state = IF IsFence(Line(c)) THEN "Normal" ELSE "InCodeFence"]

\* a scanner that opens a callout inside an open callout
ScanInCalloutNesting(c) ==
    IF IsCalloutClose(Line(c))
    THEN [Advance(c) EXCEPT
            !.state = IF Len(c.callout) > 1 THEN "InCallout" ELSE "Normal",
            !.callout = SubSeq(c.callout, 1, Len(c.callout) - 1),
            !.segments = Append(c.segments, c.callout[Len(c.callout)])]
    ELSE IF IsCalloutOpen(Line(c))
    THEN [Advance(c) EXCEPT
            !.callout = Append(c.callout,
                Callout(CalloutKind(Line(c)), CalloutTitle(Line(c)), <<>>))]
    ELSE [Advance(c) EXCEPT
            !.callout[Len(c.callout)].bodyMarkdown = Append(@, Line(c))]

\* a line in an open callout: the line that is exactly ::: closes the
\* callout, any other line is body text
ScanInCallout(c) ==
    IF IsCalloutClose(Line(c))
    THEN [Advance(c) EXCEPT !.state = "Normal",
                            !.callout = <<>>,
                            !.segments = Append(c.segments, c.callout[1])]
    ELSE [Advance(c) EXCEPT
            !.callout[1].bodyMarkdown = Append(@, Line(c))]

\* one step of the scanner, on the line the call is at
ScanStep(c) ==
    IF c.state = "InCodeFence" THEN ScanInCodeFence(c)
    ELSE IF c.state = "InCallout" THEN ScanInCallout(c)
    ELSE IF IsFence(Line(c))
    THEN [Advance(c) EXCEPT !.text = Append(c.text, Line(c)),
                            !.state = "InCodeFence"]
    ELSE ScanDirective(c)

\* a scanner that closes an open callout at the end of the input
ScanEndClosesCallout(c) ==
    [stage |-> "scanned", request |-> c.request,
     segments |-> IF c.state = "InCallout"
                  THEN Append(c.segments, c.callout[1])
                  ELSE Flush(c.segments, c.text)]

\* the end of the input: an open callout is an error, else the text
\* accumulated last becomes the last segment
ScanEnd(c) ==
    IF c.state = "InCallout"
    THEN Failed(c, "DirectiveSyntaxError", "UnterminatedCallout")
    ELSE [stage |-> "scanned", request |-> c.request,
          segments |-> Flush(c.segments, c.text)]

\* the Base Markdown Renderer, an injected capability: the HTML of a text
BaseRender(source) == [rendering_of |-> source]

\* a transformer whose page break is a forced break in both modes
TransformAlwaysBreaks(seg, config) ==
    CASE seg.type = "Text" -> [tag |-> "markdown",
                               html |-> BaseRender(seg.markdownSource)]
      [] seg.type = "PageBreak" -> [tag |-> "div", class |-> "page-break"]
      [] seg.type = "Callout" ->
            [tag |-> "callout", kind |-> seg.kind,
             label |-> IF seg.title # <<>> THEN seg.title[1]
                       ELSE <<DefaultLabel(seg.kind)>>,
             html |-> BaseRender(seg.bodyMarkdown)]
      [] seg.type = "Image" ->
            [tag |-> "img", alt |-> seg.altText, src |-> seg.url,
             width |-> seg.widthPercent]

\* transform(Segment, config): the HTML fragment of a segment
Transform(seg, config) ==
    CASE seg.type = "Text" -> [tag |-> "markdown",
                               html |-> BaseRender(seg.markdownSource)]
      [] seg.type = "PageBreak" ->
            IF config.mode = "production"
            THEN [tag |-> "div", class |-> "page-break"]
            ELSE [tag |-> "hr", class |-> "page-divider"]
      [] seg.type = "Callout" ->
            [tag |-> "callout", kind |-> seg.kind,
             label |-> IF seg.title # <<>> THEN seg.title[1]
                       ELSE <<DefaultLabel(seg.kind)>>,
             html |-> BaseRender(seg.bodyMarkdown)]
      [] seg.type = "Image" ->
            [tag |-> "img", alt |-> seg.altText, src |-> seg.url,
             width |-> seg.widthPercent]

\* the generated CSS: production has the page geometry and the rule that
\* forces a break before a page break, preview the continuous flow
GeneratedCss(config) ==
    IF config.mode = "production"
    THEN {"@page", ".page-break", "typography", "callout"}
    ELSE {"continuous-flow", ".page-divider", "typography", "callout"}

\* assemble(fragments, config): the fragments in scan order, in the shell
Assemble(fragments, config) ==
    [html |-> [style |-> GeneratedCss(config), body |-> fragments]]

\* the engine is called with a request
StartRender(text, config) ==
    /\ call = [stage |-> "idle"]
    /\ call' = [stage |-> "received",
                request |-> [markdownText |-> text, config |-> config]]
    /\ UNCHANGED pageVars

\* the configuration is validated before the pipeline runs: the scanner
\* starts, or the call is rejected with a ConfigurationError
Validate ==
    /\ call.stage = "received"
    /\ call' = IF ValidConfig(call.request.config)
               THEN Scanning(call.request)
               ELSE [stage |-> "failed", request |-> call.request,
                     error |-> "ConfigurationError",
                     detail |-> "InvalidConfig", line |-> 0]
    /\ UNCHANGED pageVars

\* the scanner takes the next line
ScanLine ==
    /\ call.stage = "scanning"
    /\ call.line <= Len(call.request.markdownText)
    /\ call' = ScanStep(call)
    /\ UNCHANGED pageVars

\* the scanner is at the end of the input
ScanFinishes ==
    /\ call.stage = "scanning"
    /\ call.line > Len(call.request.markdownText)
    /\ call' = ScanEnd(call)
    /\ UNCHANGED pageVars

\* the segments are transformed one by one and assembled
Compose ==
    /\ call.stage = "scanned"
    /\ LET config == call.request.config
           fragments == [i \in DOMAIN call.segments |->
                            Transform(call.segments[i], config)] IN
         call' = [stage |-> "composed", request |-> call.request,
                  segments |-> call.segments,
                  document |-> Assemble(fragments, config)]
    /\ UNCHANGED pageVars

\* the call returns its document or its error; nothing of it is kept
Return ==
    /\ call.stage \in {"composed", "failed"}
    /\ call' = NoCall
    /\ UNCHANGED pageVars

----------------------------------------------------------------------------
(* Specifications *)

\* ConvertSpec: the editor, the settings and the Convert button
ConvertNext ==
    \/ \E v \in Contents : ChangeContent(v)
    \/ \E n \in SliderInputs : ChangeFontSize(n)
    \/ \E p \in PageSizeOptions : ChangePageSize(p)
    \/ \E o \in OrientationOptions : ChangeOrientation(o)
    \/ ClickConvert
    \/ \E m \in NetworkErrors : ConvertFetchRejects(m)
    \/ \E r \in ConvertResponses : ConvertFetchResolves(r)
    \/ ConvertContinues

ConvertSpec == Init /\ [][ConvertNext]_vars

\* the continuation of handleConvert runs once the response is there
FairConvertSpec == ConvertSpec /\ WF_vars(ConvertContinues)

\* HandlerSpec: ConvertSpec, and handleConvert called whatever the button
\* shows
HandlerNext == ConvertNext \/ ForcedConvert

HandlerSpec == Init /\ [][HandlerNext]_vars

\* ImageSpec: the editor and the images dropped on it or pasted into it
EditorSamples == {<<>>, <<"a">>, <<"\n">>, <<"a", "\n">>, <<" ", "a">>}

ImageNext ==
    \/ \E v \in EditorSamples : ChangeContent(v)
    \/ \E d \in Transfers : DropOnEditor(d)
    \/ \E d \in Transfers : PasteInEditor(d)
    \/ \E i \in 1..MaxUploads, m \in NetworkErrors : UploadRejects(i, m)
    \/ \E i \in 1..MaxUploads : UploadRefused(i)
    \/ \E i \in 1..MaxUploads, u \in UploadUrls : UploadSucceeds(i, u)

ImageSpec == Init /\ [][ImageNext]_vars

\* RequestSpec: the settings, and both ways a document is requested
SampleContents == {<<>>, <<"a">>}

\* in RequestSpec /preview has answered before the next timer fires
RequestNext ==
    \/ \E v \in SampleContents : ChangeContent(v)
    \/ \E n \in SliderInputs : ChangeFontSize(n)
    \/ \E p \in PageSizeOptions : ChangePageSize(p)
    \/ \E o \in OrientationOptions : ChangeOrientation(o)
    \/ ClickConvert
    \/ \E m \in NetworkErrors : ConvertFetchRejects(m)
    \/ (previewCalls = <<>> /\ PreviewTimerFires)
    \/ \E ok \in BOOLEAN : PreviewSettles(1, ok)

RequestSpec == Init /\ [][RequestNext]_vars

\* TitleSpec: the title-page controls, and both ways a document is requested
TitleNext ==
    \/ \E v \in SampleContents : ChangeContent(v)
    \/ ToggleTitlePage
    \/ \E v \in TitleInputs : ChangeTitleText(v)
    \/ \E v \in TitleInputs : ChangeTitleDate(v)
    \/ \E v \in TitleInputs : ChangeTitleName(v)
    \/ ClickConvert
    \/ \E m \in NetworkErrors : ConvertFetchRejects(m)
    \/ PreviewTimerFires
    \/ \E i \in 1..MaxPreviewInFlight, ok \in BOOLEAN : PreviewSettles(i, ok)

TitleSpec == Init /\ [][TitleNext]_vars

\* PreviewSpec: the editor and the settings the live preview follows, with
\* /preview requests that overlap and answer in any order
PreviewNext ==
    \/ \E v \in {<<>>, <<"a">>, <<" ">>} : ChangeContent(v)
    \/ \E n \in {12, 13} : ChangeFontSize(n)
    \/ \E p \in {"A4", PREVIEW_PAGE_SIZE} : ChangePageSize(p)
    \/ \E o \in OrientationOptions : ChangeOrientation(o)
    \/ PreviewTimerFires
    \/ \E i \in 1..MaxPreviewInFlight, ok \in BOOLEAN : PreviewSettles(i, ok)

PreviewSpec == Init /\ [][PreviewNext]_vars

\* FairPreviewSpec: PreviewSpec with a timer that fires and a /preview that
\* answers every request with a document
FairPreviewNext ==
    \/ \E v \in {<<>>, <<"a">>, <<" ">>} : ChangeContent(v)
    \/ \E n \in {12, 13} : ChangeFontSize(n)
    \/ \E p \in {"A4", PREVIEW_PAGE_SIZE} : ChangePageSize(p)
    \/ \E o \in OrientationOptions : ChangeOrientation(o)
    \/ PreviewTimerFires
    \/ \E i \in 1..MaxPreviewInFlight : PreviewSettles(i, TRUE)

FairPreviewSpec ==
    /\ Init /\ [][FairPreviewNext]_vars
    /\ WF_vars(PreviewTimerFires)
    /\ WF_vars(\E i \in 1..MaxPreviewInFlight : PreviewSettles(i, TRUE))

\* FairTitleSpec: the title-page controls and the live preview, with a timer
\* that fires and a /preview that answers every request with a document
TitlePreviewNext ==
    \/ \E v \in SampleContents : ChangeContent(v)
    \/ ToggleTitlePage
    \/ \E v \in TitleInputs : ChangeTitleText(v)
    \/ \E v \in TitleInputs : ChangeTitleDate(v)
    \/ \E v \in TitleInputs : ChangeTitleName(v)
    \/ PreviewTimerFires
    \/ \E i \in 1..MaxPreviewInFlight : PreviewSettles(i, TRUE)

FairTitleSpec ==
    /\ Init /\ [][TitlePreviewNext]_vars
    /\ WF_vars(PreviewTimerFires)
    /\ WF_vars(\E i \in 1..MaxPreviewInFlight : PreviewSettles(i, TRUE))

\* EagerUserSpec: ConvertSpec with a user who keeps using every control that
\* is offered, and a server that keeps answering
EagerUserSpec ==
    /\ ConvertSpec
    /\ SF_vars(\E v \in Contents : ChangeContent(v))
    /\ SF_vars(\E n \in SliderInputs : ChangeFontSize(n))
    /\ SF_vars(\E p \in PageSizeOptions : ChangePageSize(p))
    /\ SF_vars(\E o \in OrientationOptions : ChangeOrientation(o))
    /\ SF_vars(ClickConvert)
    /\ SF_vars(\E m \in NetworkErrors : ConvertFetchRejects(m))
    /\ SF_vars(\E r \in ConvertResponses : ConvertFetchResolves(r))
    /\ WF_vars(ConvertContinues)

\* FileSpec: the editor, the Convert button and the Markdown files picked or
\* dropped on the upload area
DocumentLists ==
    {<<d>> : d \in Documents} \cup
    {<<>>, <<Document(<<"sample", ".", "png">>, <<"a">>),
             Document(<<"notes", ".", "md">>, <<"a">>)>>}

FileNext ==
    \/ \E v \in SampleContents : ChangeContent(v)
    \/ ClickConvert
    \/ \E m \in NetworkErrors : ConvertFetchRejects(m)
    \/ \E f \in DocumentLists : BrowseFile(f)
    \/ \E f \in DocumentLists : DropOnUploadArea(f)
    \/ \E i \in 1..MaxReads : FileReadCompletes(i)

FileSpec == Init /\ [][FileNext]_vars

\* ThemeSpec: the theme button, the editor, the page size, and the page
\* closed and opened again
ThemeNext ==
    \/ \E v \in SampleContents : (mounted /\ ChangeContent(v))
    \/ \E p \in PageSizeOptions : (mounted /\ ChangePageSize(p))
    \/ ToggleTheme
    \/ Close
    \/ \E v \in StoredThemes : StorageChanges(v)
    \/ SystemPreferenceChanges
    \/ Mount

ThemeSpec == Init /\ [][ThemeNext]_vars

\* EngineSpec: the composition engine called with every text of up to
\* MaxLines lines, in both modes, with valid and invalid settings
Texts == BoundedSeq(Lines, MaxLines)

EngineNext ==
    \/ /\ call = NoCall
       /\ \E t \in Texts, c \in RenderConfigs : StartRender(t, c)
    \/ Validate
    \/ ScanLine
    \/ ScanFinishes
    \/ Compose
    \/ Return

EngineSpec == Init /\ [][EngineNext]_vars

----------------------------------------------------------------------------
(* Claims *)

\* C1: in every reachable state the Convert button is enabled if and only if
\* no conversion is loading, the Markdown content is non-blank after trimming
\* and the selected page size is not 'preview'.
C1_ConvertButtonEnabled ==
    (~dom.convertDisabled) <=>
        (/\ isLoading = FALSE
         /\ Trim(markdownContent) # <<>>
         /\ pageSize # "preview")

\* the button is enabled again after a conversion that succeeded
C1_Witness == ~dom.convertDisabled /\ result # Null

\* C2: while the page size is 'preview' or the content is blank no step
\* sends a request to /convert, and a call of handleConvert in such a state
\* sends nothing, leaves isLoading, result and everything but the error
\* unchanged, and sets the error to the message of the test that stopped it.
C2_NoConvertWhenBlankOrPreview ==
    [][(IsBlank(markdownContent) \/ pageSize = "preview") =>
         /\ \A i \in DOMAIN sent' : sent'[i].url # "/convert"
         /\ ForcedConvert =>
              /\ sent' = <<>>
              /\ isLoading' = isLoading
              /\ result' = result
              /\ error' = (IF IsBlank(markdownContent)
                           THEN "Please enter some Markdown content"
                           ELSE "PDF download is disabled in Preview Use mode")
              /\ UNCHANGED <<markdownContent, cssStyles, settingVars,
                             titleVars, convertCall, previewHtml,
                             previewTimer, previewNetVars, uploadCalls, dom>>
      ]_vars

\* handleConvert was stopped by its preview-mode test
C2_Witness ==
    /\ error = "PDF download is disabled in Preview Use mode"
    /\ pageSize = "preview" /\ ~IsBlank(markdownContent)
    /\ sent = <<>> /\ convertCall = Idle

\* C3: while the selected page size is 'preview' no step changes the
\* orientation.
C3_OrientationFrozenInPreview ==
    [][pageSize = "preview" => orientation' = orientation]_vars

\* preview mode entered with the orientation the user had chosen before
C3_Witness ==
    pageSize = "preview" /\ orientation = "landscape" /\ dom.orientationDisabled

\* C4: the step that ends a /convert call in failure (the fetch rejected, or
\* the response is not OK) sets the error to the failure message (the
\* server's detail when there is one, 'Conversion failed' when there is none,
\* the thrown message otherwise) and leaves result null and isLoading false.
C4_ConvertFailure ==
    [][(/\ convertCall.stage # "idle"
        /\ convertCall'.stage = "idle"
        /\ ~(convertCall.stage = "reading" /\ convertCall.response.ok)) =>
         /\ IF convertCall.stage = "fetching"
            THEN error' \in NetworkErrors
            ELSE error' = (IF ~convertCall.response.json THEN JsonError
                           ELSE IF convertCall.response.detail # ""
                           THEN convertCall.response.detail
                           ELSE "Conversion failed")
         /\ result' = Null
         /\ isLoading' = FALSE
      ]_vars

\* a conversion that succeeded earlier, and one that failed after it
C4_Witness ==
    /\ error = "Conversion failed"
    /\ result = Null /\ ~isLoading /\ convertCall = Idle

\* C5 as stated: once /convert has answered OK, the state is eventually
\* reached in which result holds the response body, isLoading is false and
\* the success card is shown.
C5_Original ==
    \A d \in ConversionResults :
        (convertCall.stage = "reading" /\ convertCall.response.data = <<d>>)
            ~> (result = <<d>> /\ ~isLoading /\ dom.successCard)

\* C5 as amended: once /convert has answered OK, the state is eventually
\* reached in which result holds the response body and isLoading is false;
\* the success card is shown in it exactly when the page size is not
\* 'preview'.
C5_ConvertSuccess ==
    \A d \in ConversionResults :
        (convertCall.stage = "reading" /\ convertCall.response.data = <<d>>)
            ~> (/\ result = <<d>> /\ ~isLoading
                /\ (dom.successCard <=> pageSize # "preview"))

\* the success card on the page after a conversion
C5_Witness ==
    /\ dom.successCard /\ result # Null /\ ~isLoading
    /\ convertCall = Idle /\ error = ""

\* C6 and C7: the payloads that hold an image, and the image they hold
HoldsImage(d) == ExtractClipboardImage(d) # <<>>
ImageOf(d) == ExtractClipboardImage(d)[1]
Contains(text, part) ==
    \E k \in 0..(Len(text) - Len(part)) :
        SubSeq(text, k + 1, k + Len(part)) = part
OnePostToUploadImage ==
    \A d \in Transfers :
        (/\ HoldsImage(d)
         /\ ImageOf(d).size > 0 /\ ImageOf(d).size <= MAX_IMAGE_SIZE_BYTES
         /\ (DropOnEditor(d) \/ PasteInEditor(d))) =>
            /\ Len(sent') = 1
            /\ sent'[1].url = "/upload-image" /\ sent'[1].method = "POST"
            /\ sent'[1].body.file = ImageOf(d)

\* C6 as stated: an image of accepted size dropped or pasted sends exactly
\* one POST to /upload-image, and when the upload succeeds the editor text
\* holds ![alt](url), alt the file's name without its extension ('pasted-image'
\* when that is empty) and url the one the server returned.
C6_Original ==
    [][/\ OnePostToUploadImage
       /\ \A i \in 1..MaxUploads, u \in UploadUrls :
            UploadSucceeds(i, u) =>
              LET base == StripExtension(uploadCalls[i].file.name)
                  alt  == IF base # <<>> THEN base ELSE <<"pasted-image">>
              IN  Contains(markdownContent', Snippet(alt, u))
      ]_vars

\* C6 as amended: the same, alt being the file's name without its extension
\* and without the white space around it ('pasted-image' when nothing is
\* left).
C6_ImageSnippetInserted ==
    [][/\ OnePostToUploadImage
       /\ \A i \in 1..MaxUploads, u \in UploadUrls :
            UploadSucceeds(i, u) =>
              LET base == Trim(StripExtension(uploadCalls[i].file.name))
                  alt  == IF base # <<>> THEN base ELSE <<"pasted-image">>
              IN  Contains(markdownContent', Snippet(alt, u))
      ]_vars

\* the snippet of sample.png in the editor, after text typed before it
C6_Witness ==
    \E u \in UploadUrls :
        /\ Contains(markdownContent, <<"a", "\n">> \o Snippet(<<"sample">>, u))
        /\ uploadCalls = <<>>

\* C7: an image of size 0 or of more than MAX_IMAGE_SIZE_BYTES is turned
\* down before any request: nothing is sent, the editor text is unchanged
\* and the error is the size message; an image of exactly
\* MAX_IMAGE_SIZE_BYTES is sent to /upload-image.
C7_ImageSizeLimit ==
    [][\A d \in Transfers :
         (HoldsImage(d) /\ (DropOnEditor(d) \/ PasteInEditor(d))) =>
            /\ ImageOf(d).size = 0 =>
                 /\ sent' = <<>> /\ uploadCalls' = uploadCalls
                 /\ markdownContent' = markdownContent
                 /\ error' = "Image file is empty"
            /\ ImageOf(d).size > 10 * 1024 * 1024 =>
                 /\ sent' = <<>> /\ uploadCalls' = uploadCalls
                 /\ markdownContent' = markdownContent
                 /\ error' = "Images larger than 10 MB are not supported"
            /\ ImageOf(d).size = 10 * 1024 * 1024 =>
                 /\ Len(sent') = 1 /\ sent'[1].url = "/upload-image"
                 /\ uploadCalls' # uploadCalls
                 /\ error' = ""
      ]_vars

\* an image of more than the limit turned down, the text typed before it
\* still in the editor
C7_Witness ==
    /\ error = "Images larger than 10 MB are not supported"
    /\ uploadCalls = <<>> /\ sent = <<>>
    /\ markdownContent = <<"a">>

\* C8: every /convert and /preview request carries markdown_content, a
\* page_size among A3, A4, A5, Letter, Legal, preview and an orientation
\* among portrait, landscape, and they are the values the two selects hold;
\* the selects hold A4 and portrait at the start, and only a choice made in
\* them changes what they hold.
DocumentRequests == {i \in DOMAIN sent : sent[i].url \in {"/convert", "/preview"}}
C8_PageSizeAndOrientationSent ==
    /\ pageSize = "A4" /\ orientation = "portrait"
    /\ [](\A i \in DocumentRequests :
            LET b == sent[i].body IN
            /\ "markdown_content" \in DOMAIN b
            /\ "page_size" \in DOMAIN b
            /\ b.page_size \in {"A3", "A4", "A5", "Letter", "Legal", "preview"}
            /\ b.page_size = pageSize
            /\ "orientation" \in DOMAIN b
            /\ b.orientation \in {"portrait", "landscape"}
            /\ b.orientation = orientation)
    /\ [][/\ pageSize' # pageSize =>
               \E p \in PageSizeOptions : ChangePageSize(p)
          /\ orientation' # orientation =>
               \E o \in OrientationOptions : ChangeOrientation(o)]_vars

\* a preview requested with the controls untouched
C8_Witness ==
    /\ Len(sent) = 1 /\ sent[1].url = "/preview"
    /\ sent[1].body.page_size = "A4" /\ sent[1].body.orientation = "portrait"
    /\ fontSize # 13

\* C9: the font size starts at 13 and stays an integer in [8,18], and every
\* /convert and /preview request carries it as font_size.
C9_FontSizeInRange ==
    /\ fontSize = 13
    /\ [](/\ fontSize \in 8..18
          /\ \A i \in DocumentRequests :
               LET b == sent[i].body IN
               /\ "font_size" \in DOMAIN b
               /\ ParseInt(b.font_size) \in 8..18
               /\ NumberToString(ParseInt(b.font_size)) = b.font_size
               /\ ParseInt(b.font_size) = fontSize)

\* a conversion requested with the slider at its upper end
C9_Witness ==
    /\ Len(sent) = 1 /\ sent[1].url = "/convert"
    /\ sent[1].body.font_size = <<"1", "8">>

\* C10: in every /convert and /preview request title_text, title_date and
\* title_name are present only with title_page = 'true'; each of the three
\* is left out when its field is empty, and none of the four is sent when
\* the title-page checkbox is off.
C10_TitleFieldsSent ==
    \A i \in DocumentRequests :
        LET b == sent[i].body IN
        /\ (DOMAIN b \cap {"title_text", "title_date", "title_name"} # {}) =>
              ("title_page" \in DOMAIN b /\ b.title_page = "true")
        /\ titleText = <<>> => "title_text" \notin DOMAIN b
        /\ titleDate = <<>> => "title_date" \notin DOMAIN b
        /\ titleName = <<>> => "title_name" \notin DOMAIN b
        /\ ~includeTitlePage =>
              DOMAIN b \cap {"title_page", "title_text", "title_date",
                             "title_name"} = {}

\* the title-page settings the user can reach
TitleSettings == BOOLEAN \X TitleInputs \X TitleInputs \X TitleInputs

\* the preview shown is the document of a /preview request that carries the
\* current content and settings, title page included
PreviewIsCurrent ==
    previewHtml = PreviewDocument(PreviewFormData(
        Closure(markdownContent, fontSize, pageSize, orientation)))

\* C11: with non-blank Markdown content, whatever the title-page settings
\* (checkbox, title, date, name) have been changed to, if the user makes no
\* further edits a /preview request carrying them is eventually sent and the
\* preview shown is its document.
C11_TitlePreviewRefreshed ==
    \A x \in TitleSettings :
        (~IsBlank(markdownContent) /\ titleVars = x)
            ~> (IsBlank(markdownContent) \/ titleVars # x \/ PreviewIsCurrent)

\* C12: a failed preview refresh (the /preview fetch rejects or the response
\* is not OK) changes neither the error nor the preview HTML shown, and sets
\* isPreviewLoading back to false.
C12_PreviewFailureSilent ==
    [][(\E i \in 1..MaxPreviewInFlight : PreviewSettles(i, FALSE)) =>
          /\ error' = error
          /\ previewHtml' = previewHtml
          /\ isPreviewLoading' = FALSE]_vars

\* a refresh has failed: nothing is pending, an earlier error is still shown
\* and the preview is still the document of the settings before the change
C12_Witness ==
    /\ previewCalls = <<>>
    /\ previewTimer = NoTimer
    /\ ~isPreviewLoading
    /\ error = "Network error"
    /\ previewHtml # <<>>
    /\ ~PreviewIsCurrent

\* C13: the user can add custom CSS: a state in which cssStyles is non-empty
\* is reached, and a /convert request sent from such a state carries it as
\* css_styles.
C13_CustomCssSent ==
    /\ <>(cssStyles # <<>>)
    /\ [](\A i \in DOMAIN sent :
            (sent[i].url = "/convert" /\ cssStyles # <<>>) =>
               /\ "css_styles" \in DOMAIN sent[i].body
               /\ sent[i].body.css_styles = cssStyles)

\* the names among Documents that end in '.md'
MdNames == {<<"notes", ".", "md">>, <<".", "md">>, <<".", "mdx", ".", "md">>}

\* C14: handleFileUpload, reached from the file input or from a drop on the
\* upload area, accepts only names ending in '.md': for any other file it
\* sets the error 'Please select a .md file', starts no read and leaves the
\* Markdown content and the filename unchanged; for an accepted file a read
\* starts, and once the file is read the Markdown content is the file's text
\* and the error is cleared.
C14_MarkdownFileUpload ==
    [][/\ \A f \in DocumentLists :
            (f # <<>> /\ (BrowseFile(f) \/ DropOnUploadArea(f))) =>
               (IF f[1].name \in MdNames
                THEN /\ fileReads' = Append(fileReads, f[1])
                     /\ error' = error
                ELSE /\ error' = "Please select a .md file"
                     /\ fileReads' = fileReads
                     /\ markdownContent' = markdownContent
                     /\ filename' = filename)
        /\ \A i \in 1..MaxReads :
            FileReadCompletes(i) =>
               (markdownContent' = fileReads[i].text /\ error' = "")
        /\ \A k \in DOMAIN fileReads' : fileReads'[k].name \in MdNames
      ]_vars

\* a Markdown file has been read into the editor, and a file of another kind
\* picked after it has been turned down
C14_Witness ==
    /\ error = "Please select a .md file"
    /\ filename = <<"x", ".", "md">>
    /\ markdownContent = <<"a", "\n">>
    /\ fileReads = <<>>

\* C15: while the page is open, after any sequence of theme toggles and once
\* the effects have run, localStorage('theme') is 'dark' exactly when
\* isDarkMode is true and <html> carries the class 'dark' exactly then; a
\* fresh mount with a stored 'dark' or 'light' restores that theme whatever
\* the system preference is, and with no stored value it takes the system
\* preference.
C15_ThemeRoundTrip ==
    /\ [](mounted =>
            /\ storedTheme \in {<<"dark">>, <<"light">>}
            /\ (storedTheme = <<"dark">>) <=> isDarkMode
            /\ htmlDark <=> isDarkMode)
    /\ [][(~mounted /\ mounted') =>
            /\ storedTheme = <<"dark">> => isDarkMode'
            /\ storedTheme = <<"light">> => ~isDarkMode'
            /\ storedTheme = Null => (isDarkMode' <=> prefersDark)]_vars

\* the dark theme chosen, stored and read back by a fresh mount on a system
\* that prefers light
C15_Witness ==
    /\ mounted /\ ~prefersDark
    /\ saved = <<"dark">>
    /\ isDarkMode /\ htmlDark
    /\ storedTheme = <<"dark">>

\* the scanner is about to take a line
AtLine == call.stage = "scanning" /\ call.line <= Len(call.request.markdownText)

\* the call has ended with its text scanned
Scanned == call.stage \in {"scanned", "composed"}

\* the scan of a request with valid settings is over, with or without an
\* error
ScanOver ==
    /\ call.stage \in {"failed", "scanned", "composed"}
    /\ ValidConfig(call.request.config)

\* the place of the line that closes the fence opened by the first line of a
\* text, or the last line when nothing closes it
FenceEnd(text) ==
    LET closes == {i \in 2..Len(text) : IsFence(text[i])} IN
    IF closes = {} THEN Len(text)
    ELSE CHOOSE i \in closes : \A j \in closes : i <= j

\* C16: while the scanner is inside a fenced code block it recognises no
\* directive: the line it takes, a [[PAGEBREAK]] or a :::note as well,
\* joins the text it accumulates and no segment is emitted and no callout
\* opened; the lines of a fence that opens a text come out verbatim and in
\* order in the first Text segment and in the fragment rendered from it.
C16_CodeFenceImmunity ==
    /\ [][(AtLine /\ call.state = "InCodeFence") =>
            /\ call'.stage = "scanning"
            /\ call'.text = Append(call.text, Line(call))
            /\ call'.segments = call.segments
            /\ call'.callout = <<>>
            /\ call'.state \in {"InCodeFence", "Normal"}
            /\ (call'.state = "Normal") <=> (Line(call) = <<Fence>>)]_vars
    /\ [](/\ Scanned
          /\ call.request.markdownText # <<>>
          /\ call.request.markdownText[1] = <<Fence>>
          => LET text == call.request.markdownText
                 n == FenceEnd(text) IN
             /\ call.segments # <<>>
             /\ call.segments[1].type = "Text"
             /\ Len(call.segments[1].markdownSource) >= n
             /\ SubSeq(call.segments[1].markdownSource, 1, n)
                   = SubSeq(text, 1, n)
             /\ call.stage = "composed" =>
                   call.document.html.body[1] =
                      [tag |-> "markdown",
                       html |-> BaseRender(call.segments[1].markdownSource)])

\* a fence that holds a page break and an opening line, composed into one
\* fragment of text
C16_Witness ==
    /\ call.stage = "composed"
    /\ call.request.markdownText =
          <<<<Fence>>, <<"[[PAGEBREAK]]">>, <<":::", "note">>>>
    /\ Len(call.document.html.body) = 1
    /\ call.document.html.body[1].tag = "markdown"

\* C17: a callout opened by a :::kind line and not closed by a ::: line
\* before the end of the input makes the scan fail with a
\* DirectiveSyntaxError, and no document is returned; the same input with a
\* closing ::: line succeeds and yields one Callout segment, labelled by its
\* kind ('Note' for note).
C17_UnterminatedCallout ==
    /\ [][(call.stage = "scanning" /\ ~AtLine /\ call.state = "InCallout") =>
            /\ call'.stage = "failed"
            /\ call'.error = "DirectiveSyntaxError"]_vars
    /\ [](call.stage = "failed" => "document" \notin DOMAIN call)
    /\ [](\A body \in Lines \ {<<":::">>} :
            /\ (ScanOver
                  /\ call.request.markdownText = <<<<":::", "note">>, body>>)
               => (call.stage = "failed"
                     /\ call.error = "DirectiveSyntaxError")
            /\ (ScanOver
                  /\ call.request.markdownText =
                        <<<<":::", "note">>, body, <<":::">>>>)
               => /\ call.stage \in {"scanned", "composed"}
                  /\ call.segments = <<Callout("note", <<>>, <<body>>)>>
                  /\ call.stage = "composed" =>
                       call.document.html.body =
                          <<[tag |-> "callout", kind |-> "note",
                             label |-> <<"Note">>,
                             html |-> BaseRender(<<body>>)]>>)

\* the scan of ':::note', 'hello' has failed at the end of the input
C17_Witness ==
    /\ call.stage = "failed"
    /\ call.detail = "UnterminatedCallout"
    /\ call.request.markdownText = <<<<":::", "note">>, <<"hello">>>>

PageBreakLines(text) ==
    {i \in DOMAIN text : Trim(text[i]) = <<"[[PAGEBREAK]]">>}

\* the state of a scanner that has taken the first n lines of a text
RECURSIVE StateAfter(_, _)
StateAfter(text, n) ==
    IF n = 0 THEN "Normal"
    ELSE LET before == StateAfter(text, n - 1) IN
         IF before = "InCodeFence"
         THEN (IF Head(Trim(text[n]) \o <<"">>) = Fence
               THEN "Normal" ELSE "InCodeFence")
         ELSE IF before = "InCallout"
         THEN (IF text[n] = <<":::">> THEN "Normal" ELSE "InCallout")
         ELSE IF Head(Trim(text[n]) \o <<"">>) = Fence THEN "InCodeFence"
         ELSE IF Len(text[n]) >= 2 /\ text[n][1] = ":::" THEN "InCallout"
         ELSE "Normal"

\* the page-break lines that stand neither in a fenced code block nor in
\* the body of a callout
OpenPageBreakLines(text) ==
    {i \in PageBreakLines(text) : StateAfter(text, i - 1) = "Normal"}

ForcedBreaks(doc) ==
    {i \in DOMAIN doc.html.body : doc.html.body[i].class = "page-break"}
Dividers(doc) ==
    {i \in DOMAIN doc.html.body : doc.html.body[i].class = "page-divider"}
Marked(doc) ==
    [html |-> [doc.html EXCEPT !.body =
        [i \in DOMAIN doc.html.body |->
            IF "class" \in DOMAIN doc.html.body[i] THEN doc.html.body[i]
            ELSE [class |-> "none"]]]]

\* C19 as stated: for every input with k lines whose trimmed content is
\* exactly [[PAGEBREAK]], production-mode output contains exactly k
\* forced-break markers, and preview-mode output exactly k divider markers
\* and no forced-break CSS rule.
C19_Original ==
    call.stage = "composed" =>
        LET k == Cardinality(PageBreakLines(call.request.markdownText))
            doc == Marked(call.document) IN
        IF call.request.config.mode = "production"
        THEN Cardinality(ForcedBreaks(doc)) = k
        ELSE /\ Cardinality(Dividers(doc)) = k
             /\ Cardinality(ForcedBreaks(doc)) = 0
             /\ ".page-break" \notin call.document.html.style

\* C19: for every input that scans without an error, with k lines whose
\* trimmed content is exactly [[PAGEBREAK]] and which stand neither in a
\* fenced code block nor in the body of a callout, production-mode output
\* contains exactly k forced-break markers, and preview-mode output exactly
\* k divider markers, no forced-break marker and no forced-break CSS rule.
C19_PageBreakCount ==
    call.stage = "composed" =>
        LET k == Cardinality(OpenPageBreakLines(call.request.markdownText))
            doc == Marked(call.document) IN
        IF call.request.config.mode = "production"
        THEN /\ Cardinality(ForcedBreaks(doc)) = k
             /\ Cardinality(Dividers(doc)) = 0
        ELSE /\ Cardinality(Dividers(doc)) = k
             /\ Cardinality(ForcedBreaks(doc)) = 0
             /\ ".page-break" \notin call.document.html.style

\* a preview of two page breaks with text between them
C19_Witness ==
    /\ call.stage = "composed"
    /\ call.request.config.mode = "preview"
    /\ call.request.markdownText =
          <<<<"[[PAGEBREAK]]">>, <<"hello">>, <<" ", "[[PAGEBREAK]]", " ">>>>
    /\ Cardinality(Dividers(Marked(call.document))) = 2

\* C20: an opening line whose kind is not one of note, tip, warning,
\* caution, info, compared without regard to case, fails the scan with a
\* DirectiveSyntaxError: no callout, of kind note or any other, is opened
\* for it and it does not pass as text, so every Callout the scanner holds
\* or emits, and every callout fragment, has one of the five kinds.
C20_UnknownKindRejected ==
    /\ [][(AtLine /\ call.state = "Normal"
             /\ Line(call) = <<":::", "bogus">>) =>
            /\ call'.stage = "failed"
            /\ call'.error = "DirectiveSyntaxError"]_vars
    /\ [][(AtLine /\ call.state = "Normal"
             /\ Line(call) = <<":::", "TIP", " ", "Title">>) =>
            /\ call'.stage = "scanning"
            /\ call'.callout = <<Callout("tip", <<<<"Title">>>>, <<>>)>>]_vars
    /\ [](call.stage = "scanning" =>
            \A i \in DOMAIN call.callout :
               call.callout[i].kind \in {"note", "tip", "warning",
                                          "caution", "info"})
    /\ [](call.stage \in {"scanning", "scanned", "composed"} =>
            \A i \in DOMAIN call.segments :
               call.segments[i].type = "Callout" =>
                  call.segments[i].kind \in {"note", "tip", "warning",
                                             "caution", "info"})

\* the scan of 'hello', ':::bogus' has failed on its second line
C20_Witness ==
    /\ call.stage = "failed"
    /\ call.detail = "UnknownCalloutKind"
    /\ call.line = 2
    /\ call.request.markdownText = <<<<"hello">>, <<":::", "bogus">>>>

\* the settings of the call are outside what the Configuration Model admits
InvalidSettings ==
    LET config == call.request.config IN
      \/ config.fontSizePx < 8
      \/ config.fontSizePx > 18
      \/ config.pageSize \notin {"A3", "A4", "A5", "Letter", "Legal", "Preview"}
      \/ /\ config.pageSize # "Preview"
         /\ config.orientation \notin {"portrait", "landscape"}

\* C21: a call whose font size is outside [8,18], or whose page size or
\* orientation is not one of the enumerated values, ends with a
\* ConfigurationError as its first step: no scanning step runs for it, and
\* it has no segments and no document; with pageSize = Preview and a valid
\* font size the call goes on to scan whatever its orientation is.
C21_ConfigurationFailsFast ==
    /\ [][(call.stage = "received" /\ InvalidSettings) =>
            /\ call'.stage = "failed"
            /\ call'.error = "ConfigurationError"
            /\ "segments" \notin DOMAIN call'
            /\ "document" \notin DOMAIN call']_vars
    /\ [](call.stage \in {"scanning", "scanned", "composed"} =>
            ~InvalidSettings)
    /\ [][(/\ call.stage = "received"
           /\ call.request.config.pageSize = "Preview"
           /\ call.request.config.fontSizePx \in 8..18) =>
            call'.stage = "scanning"]_vars
    /\ [][(call.stage = "failed" /\ call.error = "ConfigurationError") =>
            call'.stage = "idle"]_vars

\* a call for A4 with an orientation that is not enumerated has been
\* rejected, its font size being valid
C21_Witness ==
    /\ call.stage = "failed"
    /\ call.error = "ConfigurationError"
    /\ call.request.config.fontSizePx = 8
    /\ call.request.config.pageSize = "A4"
    /\ call.request.config.orientation = "sideways"
    /\ call.request.markdownText = <<<<"hello">>>>

\* the values the preview effect depends on
PreviewDeps == <<markdownContent, fontSize, pageSize, orientation>>

\* the /preview requests sent by the step that led to this state
PreviewRequestsSent ==
    {sent[i].body : i \in {j \in DOMAIN sent : sent[j].url = "/preview"}}

\* C23: at most one preview timer is pending at any time; a change to the
\* Markdown content, font size, page size or orientation leaves no earlier
\* timer pending, and the one timer pending after it (none when the content
\* is blank) holds the values of the render that follows the change; a
\* /preview request is sent only by the step of a pending timer, and its
\* body carries the content and settings that timer holds.
C23_PreviewDebounced ==
    /\ [](Len(previewTimer) <= 1)
    /\ [][PreviewDeps' # PreviewDeps =>
            previewTimer' =
               IF Trim(markdownContent') = <<>> THEN <<>>
               ELSE <<[markdownContent |-> markdownContent',
                       fontSize |-> fontSize',
                       pageSize |-> pageSize',
                       orientation |-> orientation',
                       includeTitlePage |-> includeTitlePage',
                       titleText |-> titleText',
                       titleDate |-> titleDate',
                       titleName |-> titleName']>>]_vars
    /\ [][PreviewRequestsSent' # {} =>
            /\ previewTimer # <<>>
            /\ previewTimer' = <<>>
            /\ PreviewDeps' = PreviewDeps
            /\ \A body \in PreviewRequestsSent' :
                  /\ body.markdown_content = previewTimer[1].markdownContent
                  /\ body.font_size =
                        NumberToString(previewTimer[1].fontSize)
                  /\ body.page_size = previewTimer[1].pageSize
                  /\ body.orientation = previewTimer[1].orientation]_vars

\* a request for 'a' at 12px has been sent, the only one, although the
\* content and the font size were changed one after the other
C23_Witness ==
    /\ PreviewRequestsSent # {}
    /\ \A body \in PreviewRequestsSent :
          body.markdown_content = <<"a">> /\ body.font_size = <<"1", "2">>
    /\ Len(previewCalls) = 1
    /\ previewHtml = <<>>
    /\ previewTimer = <<>>

\* no timer is pending and no /preview request is in flight
PreviewQuiet == previewTimer = <<>> /\ previewCalls = <<>>

\* C24: when the content is not blank, no timer is pending and every
\* /preview request has been answered with a document, the preview HTML
\* shown is the document of the request for the current content, font size,
\* page size and orientation.
C24_LatestPreviewWins ==
    (PreviewQuiet /\ ~IsBlank(markdownContent)) => PreviewIsCurrent

\* C25: no /preview request is sent for content that is blank after
\* trimming, and whenever the content is blank and no /preview request is in
\* flight the preview HTML is the empty string, also after the answer to a
\* request sent before the content was cleared.
C25_BlankContentEmptyPreview ==
    /\ \A body \in PreviewRequestsSent : Trim(body.markdown_content) # <<>>
    /\ (Trim(markdownContent) = <<>> /\ previewCalls = <<>>) =>
          previewHtml = <<>>

\* C26: isPreviewLoading is true exactly when at least one /preview request
\* is in flight, also while two requests overlap.
C26_PreviewIndicatorAccurate ==
    isPreviewLoading <=> (Len(previewCalls) >= 1)

\* C27: whenever the page size is 'preview' (the effects having run) result
\* is null, also after a /convert response that arrives after the switch,
\* so that no result is there to be shown or downloaded when preview mode is
\* left.
C27_PreviewModeDiscardsResult ==
    /\ [](pageSize = "preview" => result = <<>>)
    /\ [][(pageSize = "preview" /\ pageSize' # "preview") =>
            (result' = <<>> /\ ~dom'.successCard)]_vars

\* the /convert requests sent by the step that led to this state
ConvertRequestsSent ==
    {sent[i].body : i \in {j \in DOMAIN sent : sent[j].url = "/convert"}}

\* C28: a /convert request is sent only while no other is in flight, so at
\* most one is in flight at any time; isLoading is true exactly while the
\* request is in flight (until handleConvert has finished with its
\* response); and during that time result is null and no success card is
\* shown.
C28_OneConversionAtATime ==
    /\ [][ConvertRequestsSent' # {} =>
            /\ convertCall.stage = "idle"
            /\ ~isLoading
            /\ Cardinality(ConvertRequestsSent') = 1 /\ Len(sent') = 1]_vars
    /\ [](isLoading <=> convertCall.stage \in {"fetching", "reading"})
    /\ [](convertCall.stage \in {"fetching", "reading"} =>
            (result = <<>> /\ ~dom.successCard))

\* /convert has answered the one request and handleConvert has not yet read
\* the answer: the conversion is loading and there is no result
C28_Witness ==
    /\ convertCall.stage = "reading"
    /\ convertCall.response.ok
    /\ isLoading
    /\ result = <<>>
    /\ ~dom.successCard
    /\ dom.convertDisabled
    /\ pageSize = "A4"

\* C29: with a textarea whose selection is [start, end), the new content is
\* the text before the selection, a newline when that text is non-empty and
\* does not end in a newline, the snippet, a newline, and the text after the
\* selection; with no textarea the snippet and a newline follow the old
\* text, after a newline when the old text is non-empty. In both cases the
\* text outside the selection is kept in order.
C29_InsertChangesOnlySelection ==
    [][\A i \in 1..MaxUploads, u \in UploadUrls :
         LET old == markdownContent
             new == markdownContent'
             alt == IF uploadCalls[i].altHint # <<>>
                    THEN uploadCalls[i].altHint ELSE <<"pasted-image">>
             snippet == <<"![">> \o alt \o <<"](">> \o u \o <<")">> IN
         /\ \A start \in 0..Len(old), end \in 0..Len(old) :
               (/\ Len(uploadCalls') < Len(uploadCalls)
                /\ UploadInserts(i, u, <<[selectionStart |-> start,
                                          selectionEnd |-> end]>>)) =>
                 LET before == SubSeq(old, 1, start)
                     after == SubSeq(old, end + 1, Len(old))
                     break == IF start > 0 /\ old[start] # "\n"
                              THEN <<"\n">> ELSE <<>> IN
                 /\ new = before \o break \o snippet \o <<"\n">> \o after
                 /\ SubSeq(new, 1, start) = before
                 /\ SubSeq(new, Len(new) - Len(after) + 1, Len(new)) = after
         /\ (Len(uploadCalls') < Len(uploadCalls)
               /\ UploadInserts(i, u, <<>>)) =>
               /\ new = (IF old = <<>> THEN <<>> ELSE old \o <<"\n">>)
                        \o snippet \o <<"\n">>
               /\ SubSeq(new, 1, Len(old)) = old
      ]_vars

\* the snippet of sample.png between the two characters of the text typed,
\* on a line of its own
C29_Witness ==
    \E u \in UploadUrls :
        /\ markdownContent =
              <<" ", "\n">> \o Snippet(<<"sample">>, u) \o <<"\n", "a">>
        /\ uploadCalls = <<>>

\* C30: when /upload-image answers with a status that is not OK, the
\* Markdown content is unchanged and the error becomes 'Image paste failed'
\* if the image was pasted and 'Image drop failed' if it was dropped; a paste
\* or drop without an image file makes the handler return at once: it sends
\* nothing, starts no upload and changes neither the error nor the content.
C30_UploadRefusedMessage ==
    [][/\ \A i \in 1..MaxUploads :
            UploadRefused(i) =>
              /\ markdownContent' = markdownContent
              /\ uploadCalls[i].source = "paste" =>
                    error' = "Image paste failed"
              /\ uploadCalls[i].source = "drop" =>
                    error' = "Image drop failed"
              /\ uploadCalls[i].source \in {"paste", "drop"}
       /\ \A d \in Transfers :
            (~HoldsImage(d) /\ (DropOnEditor(d) \/ PasteInEditor(d))) =>
              /\ error' = error
              /\ markdownContent' = markdownContent
              /\ sent' = <<>>
              /\ uploadCalls' = uploadCalls
       /\ \A d \in Transfers :
            (HoldsImage(d) /\ Len(sent') = 1) =>
              /\ DropOnEditor(d) =>
                    uploadCalls'[Len(uploadCalls')].source = "drop"
              /\ PasteInEditor(d) =>
                    uploadCalls'[Len(uploadCalls')].source = "paste"
      ]_vars

\* the upload of a dropped image has been refused: the text typed before is
\* still in the editor
C30_Witness ==
    /\ error = "Image drop failed"
    /\ markdownContent = <<"a">>
    /\ uploadCalls = <<>> /\ sent = <<>>

====
